---- MODULE Spec2Model ----
(***************************************************************************)
(* The query-answering pipeline of the movie recommender (src/app.py,      *)
(* src/prompts.py): MovieRecommendationApp.process_query, the schema       *)
(* introspection get_ontology_from_neo4j and the two prompt builders.      *)
(*                                                                         *)
(* Text is a sequence of one-character strings, so that strip, splitlines, *)
(* startswith, join and slicing are computed as Python computes them.      *)
(* The collaborators (Vertex AI embedding model, Gemini, Neo4j) are the    *)
(* environment: each call returns one of a bounded set of values or        *)
(* raises an exception carrying one of a bounded set of messages.          *)
(***************************************************************************)
EXTENDS Integers, Sequences, FiniteSets, TLC

VARIABLES
    pc,               \* position inside process_query
    user_input,       \* argument of process_query
    query_embedding,  \* app.py:186
    vector_results,   \* app.py:187
    context,          \* app.py:193-195
    nodes,            \* get_ontology_from_neo4j: dict node_type -> set of properties
    relationships,    \* get_ontology_from_neo4j: set of relationship types
    ontology,         \* app.py:198
    cypher_prompt,    \* app.py:199
    llm_raw,          \* text Gemini returned for the query-generation prompt
    generated_query,  \* app.py:200, 207
    records,          \* app.py:214
    summary_prompt,   \* app.py:217
    summary,          \* app.py:218
    llm_in,           \* prompts submitted to Gemini, in order
    answer,           \* value process_query returned
    raised,           \* TRUE iff an exception left process_query
    graph,            \* nodes stored in Neo4j
    graph0,           \* the graph when the request started
    calls,            \* collaborators and prompt builders invoked, in order
    fault,            \* the exception raised inside process_query, if any
    p_in,             \* arguments handed to summarize_results_prompt (prompt harness)
    p_out,            \* what summarize_results_prompt returned (prompt harness)
    r_in,             \* graph, embedding and top_k of one vector retrieval (retrieval harness)
    r_out,            \* what get_movie_recommendations_by_vector returned (retrieval harness)
    o_in,             \* the two introspection responses (ontology harness)
    o_out,            \* what get_ontology_from_neo4j did with them (ontology harness)
    t_pc,             \* position of each request inside handle_user_input
    t_input,          \* the text each request was submitted with
    t_frame,          \* the locals of each invocation of process_query
    t_log,            \* the collaborator calls of each request: argument and outcome
    t_answer,         \* what handle_user_input returned for each request
    t_driver          \* state of the Neo4j driver each request opened

\* the variables of the harnesses and of the concurrent requests
ext == <<r_in, r_out, o_in, o_out, t_pc, t_input, t_frame, t_log, t_answer, t_driver>>

vars == <<pc, user_input, query_embedding, vector_results, context, nodes,
          relationships, ontology, cypher_prompt, llm_raw, generated_query,
          records, summary_prompt, summary, llm_in, answer, raised, graph, graph0,
          calls, fault, p_in, p_out, ext>>

-----------------------------------------------------------------------------
(* Bounds of the model *)

MaxLines == 3        \* lines in a text returned by Gemini for query generation
MaxNodeRows == 1     \* rows returned by db.schema.nodeTypeProperties()
MaxRelRows == 1      \* rows returned by db.relationshipTypes()
MaxRecords == 1      \* records returned by the generated query
MaxMovies == 2       \* Movie nodes carrying an embedding
MaxExtra == 2        \* characters beyond the truncation limit in the prompt harness
MaxCount == 2        \* result_count handed to summarize_results_prompt in the harness
MaxIndexed == 4      \* Movie nodes in the vector index in the retrieval harness
MaxTopK == 3         \* top_k handed to get_movie_recommendations_by_vector in the harness
MaxOntNodeRows == 2  \* rows of db.schema.nodeTypeProperties() in the ontology harness
MaxOntRelRows == 2   \* rows of db.relationshipTypes() in the ontology harness

-----------------------------------------------------------------------------
(* Python str operations *)

Min(a, b) == IF a <= b THEN a ELSE b

\* characters str.strip() removes (the ASCII ones that can occur here)
Whitespace == {" ", "\t", "\n", "\r"}

\* str.lstrip()
RECURSIVE LStrip(_)
LStrip(s) ==
    IF s = <<>> THEN <<>>
    ELSE IF Head(s) \in Whitespace THEN LStrip(Tail(s)) ELSE s

\* str.rstrip()
RECURSIVE RStrip(_)
RStrip(s) ==
    IF s = <<>> THEN <<>>
    ELSE IF s[Len(s)] \in Whitespace THEN RStrip(SubSeq(s, 1, Len(s) - 1)) ELSE s

\* str.rstrip() in the place of str.strip()
Strip_RightOnly(s) == RStrip(s)

\* str.strip()
Strip(s) == RStrip(LStrip(s))

\* str.startswith(p)
StartsWith(s, p) == Len(s) >= Len(p) /\ SubSeq(s, 1, Len(p)) = p

\* str.splitlines(): a line ends at "\n", "\r" or "\r\n"; the terminators are
\* dropped and a terminator at the very end opens no further line.
RECURSIVE SplitLinesAcc(_, _, _)
SplitLinesAcc(s, cur, acc) ==
    IF s = <<>> THEN (IF cur = <<>> THEN acc ELSE Append(acc, cur))
    ELSE IF Head(s) = "\r" /\ Len(s) >= 2 /\ s[2] = "\n"
         THEN SplitLinesAcc(Tail(Tail(s)), <<>>, Append(acc, cur))
    ELSE IF Head(s) \in {"\n", "\r"}
         THEN SplitLinesAcc(Tail(s), <<>>, Append(acc, cur))
    ELSE SplitLinesAcc(Tail(s), Append(cur, Head(s)), acc)

SplitLines(s) == SplitLinesAcc(s, <<>>, <<>>)

\* sep.join(parts)
RECURSIVE Join(_, _)
Join(parts, sep) ==
    IF parts = <<>> THEN <<>>
    ELSE IF Len(parts) = 1 THEN parts[1]
    ELSE parts[1] \o sep \o Join(Tail(parts), sep)

\* s[:n]
Slice(s, n) == SubSeq(s, 1, Min(Len(s), n))

\* p occurs in s
Contains(s, p) ==
    \E i \in 0..(Len(s) - Len(p)) : SubSeq(s, i + 1, i + Len(p)) = p

\* The grave accent (U+0060) cannot be written inside a TLA+ string: the
\* character is named instead.
Backtick == "GRAVE"

\* the Markdown fence marker tested at app.py:203 and app.py:206
Fence == <<Backtick, Backtick, Backtick>>

-----------------------------------------------------------------------------
(* Python conversions *)

Digit == <<"0", "1", "2", "3", "4", "5", "6", "7", "8", "9">>

\* str(n) for an integer n >= 0
RECURSIVE IntStr(_)
IntStr(n) ==
    IF n < 10 THEN <<Digit[n + 1]>>
    ELSE IntStr(n \div 10) \o <<Digit[(n % 10) + 1]>>

\* repr of one record.data() dict with the single field title
DictRepr(r) == <<"{", "'", "t", "i", "t", "l", "e", "'", ":", " ", "'">> \o r.title \o <<"'", "}">>

\* str(records) for a list of dicts (app.py:217)
RECURSIVE ReprAll(_)
ReprAll(rs) ==
    IF rs = <<>> THEN <<>> ELSE <<DictRepr(Head(rs))>> \o ReprAll(Tail(rs))

ListStr(rs) == <<"[">> \o Join(ReprAll(rs), <<",", " ">>) \o <<"]">>

\* the enumerations of a Python set: its iteration order is not fixed by the code
Orders(S) ==
    {f \in [1..Cardinality(S) -> S] : \A i, j \in 1..Cardinality(S) : f[i] = f[j] => i = j}

\* all sequences over S of length at most n
SeqUpTo(S, n) == UNION {[1..k -> S] : k \in 0..n}

-----------------------------------------------------------------------------
(* Program constants *)

\* app.py:223
ErrPrefix == <<"E", "r", "r", "o", "r", " ", "p", "r", "o", "c", "e", "s", "s", "i", "n", "g", " ", "q", "u", "e", "r", "y", ":", " ">>

\* app.py:190
NoResultsMsg == <<"S", "o", "r", "r", "y", ",", " ", "n", "o", " ", "r", "e", "l", "e", "v", "a", "n", "t", " ", "r", "e", "s", "u", "l", "t", "s", " ", "f", "o", "u", "n", "d", " ", "u", "s", "i", "n", "g", " ", "v", "e", "c", "t", "o", "r", " ", "s", "e", "a", "r", "c", "h", ".">>

\* prompts.py:67
NoResultsFound == <<"N", "o", " ", "r", "e", "s", "u", "l", "t", "s", " ", "f", "o", "u", "n", "d", ".">>

\* prompts.py:59
NoQueryAvailable == <<"N", "o", " ", "q", "u", "e", "r", "y", " ", "a", "v", "a", "i", "l", "a", "b", "l", "e">>

\* prompts.py:67
TruncLimit == 4000

\* app.py:187
top_k == 5

\* app.py:193
ContextHeader == <<"I", "n", "f", "o", "r", "m", "a", "t", "i", "o", "n", " ", "f", "r", "o", "m", " ", "v", "e", "c", "t", "o", "r", " ", "s", "e", "a", "r", "c", "h", ":", "\n">>

-----------------------------------------------------------------------------
(* Values the environment can supply *)

UserInputs == {<<"t", "i", "m", "e", " ", "t", "r", "a", "v", "e", "l">>, <<"?">>}

\* the vectors text-embedding-005 can return (768 floats, kept abstract)
Embeddings == {1}

\* messages str(e) of the exceptions the collaborators can raise
FaultMsgs == {<<>>, <<"t", "i", "m", "e", "o", "u", "t">>}

\* Movie nodes of the graph, with the properties the vector query returns
Movie(i) ==
    [id |-> i, title |-> <<"T", Digit[i + 1]>>, overview |-> <<"p", Digit[i + 1]>>,
     release_date |-> <<"1", "9", "9", Digit[i + 1]>>, tagline |-> <<>>, embedded |-> TRUE]

\* the node a CREATE clause of a generated query adds
CreatedNode ==
    [id |-> 0, title |-> <<>>, overview |-> <<>>, release_date |-> <<>>,
     tagline |-> <<>>, embedded |-> FALSE]

Graphs == {{Movie(i) : i \in 1..k} : k \in 0..MaxMovies}

\* cosine similarity of a node's embedding and the query embedding, scaled to
\* integers
\* (two nodes can be equally near the second query embedding)
Score(m, e) == IF e = 1 THEN 10 - m.id ELSE m.id \div 2

\* rows of CALL db.schema.nodeTypeProperties()
NodeRowValues ==
    {[nodeLabels |-> << <<"M", "o", "v", "i", "e">> >>, propertyName |-> <<"t", "i", "t", "l", "e">>]}

\* rows of CALL db.relationshipTypes()
RelTypeValues == {<<"A", "C", "T", "E", "D", "_", "I", "N">>}

\* lines Gemini can put into its answer to the query-generation prompt
LineValues ==
    {Fence,
     Fence \o <<"c", "y", "p", "h", "e", "r">>,
     <<" ", " ">> \o Fence,
     <<"M", "A", "T", "C", "H", " ", "(", "m", ")", " ", "R", "E", "T", "U", "R", "N", " ", "m">>,
     <<" ", " ", "C", "R", "E", "A", "T", "E", " ", "(", "n", ")">>,
     <<>>}

\* texts Gemini can return for the query-generation prompt
GeneratedTexts == {Join(ls, <<"\n">>) : ls \in SeqUpTo(LineValues, MaxLines)}

\* texts Gemini can return for the summary prompt
SummaryTexts == {<<>>, <<"G", "r", "e", "a", "t", " ", "p", "i", "c", "k", "s", "!">>, <<" ", "o", "k", "\n">>}

\* record.data() of the records a generated query can return
RecordValues == {[title |-> <<"T", "1">>]}

ResultSets == SeqUpTo(RecordValues, MaxRecords)

-----------------------------------------------------------------------------
(* Prompt builders, src/prompts.py.  A prompt is the record of the texts the *)
(* template embeds in its delimited sections; the fixed text between the    *)
(* sections is the same for every prompt and is left out.                   *)

\* prompts.py:13-46
cypher_generation_prompt(query, ctx, onto) ==
    [ontology |-> onto, question |-> query, context |-> ctx]

\* prompts.py:67 slicing one character too many
summarize_results_prompt_OffByOne(query, cypher_results, result_count, formatted_cypher_results) ==
    [question |-> query,
     cypher   |-> IF "query" \in DOMAIN cypher_results
                  THEN cypher_results["query"] ELSE NoQueryAvailable,
     count    |-> IntStr(result_count),
     results  |-> IF result_count > 0
                  THEN Slice(formatted_cypher_results, TruncLimit + 1)
                  ELSE NoResultsFound]

\* prompts.py:51-90
summarize_results_prompt(query, cypher_results, result_count, formatted_cypher_results) ==
    [question |-> query,
     cypher   |-> IF "query" \in DOMAIN cypher_results
                  THEN cypher_results["query"] ELSE NoQueryAvailable,
     count    |-> IntStr(result_count),
     results  |-> IF result_count > 0
                  THEN Slice(formatted_cypher_results, TruncLimit)
                  ELSE NoResultsFound]

-----------------------------------------------------------------------------
(* Vector retrieval, app.py:66-107 *)

Embedded(g) == {m \in g : m.embedded}

\* db.index.vector.queryNodes(index, k, e): the k nearest indexed nodes, in
\* an order the procedure chooses
IndexHits(g, e, k) ==
    LET n == Min(k, Cardinality(Embedded(g)))
        Nearest == {S \in SUBSET Embedded(g) :
                      /\ Cardinality(S) = n
                      /\ \A a \in S, b \in Embedded(g) \ S : Score(a, e) >= Score(b, e)}
    IN UNION {Orders(S) : S \in Nearest}

\* insert node m into a sequence sorted by descending score
RECURSIVE InsertDesc(_, _, _)
InsertDesc(m, sorted, e) ==
    IF sorted = <<>> THEN <<m>>
    ELSE IF Score(m, e) > Score(Head(sorted), e) THEN <<m>> \o sorted
    ELSE <<Head(sorted)>> \o InsertDesc(m, Tail(sorted), e)

\* the query without its ORDER BY clause
OrderByScoreDesc_None(h, e) == h

\* ORDER BY score DESC (app.py:88)
RECURSIVE OrderByScoreDesc(_, _)
OrderByScoreDesc(h, e) ==
    IF h = <<>> THEN <<>>
    ELSE InsertDesc(Head(h), OrderByScoreDesc(Tail(h), e), e)

\* the list comprehension of app.py:97-106
Recommendations(h, e) ==
    [i \in 1..Len(h) |->
        [title |-> h[i].title, plot |-> h[i].overview, released |-> h[i].release_date,
         tagline |-> h[i].tagline, similarity |-> Score(h[i], e)]]

get_movie_recommendations_by_vector(g, e, k) ==
    {Recommendations(OrderByScoreDesc(h, e), e) : h \in IndexHits(g, e, k)}

\* app.py:193-195; i is the index enumerate() gives the first element of rs
RECURSIVE ContextEntries(_, _)
ContextEntries(rs, i) ==
    IF rs = <<>> THEN <<>>
    ELSE <<"[", "R", "e", "s", "u", "l", "t", " ">> \o IntStr(i + 1) \o <<"]", " ", "T", "i", "t", "l", "e", ":", " ">> \o Head(rs).title
         \o <<"\n", "P", "l", "o", "t", ":", " ">> \o Head(rs).plot \o <<"\n", "\n">>
         \o ContextEntries(Tail(rs), i + 1)

FormatContext(rs) == ContextHeader \o ContextEntries(rs, 0)

-----------------------------------------------------------------------------
(* Schema introspection, get_ontology_from_neo4j, app.py:143-171 *)

\* position of key k in the dict d (a sequence of key/props entries), 0 if absent
KeyIndex(d, k) ==
    IF \E i \in 1..Len(d) : d[i].key = k
    THEN CHOOSE i \in 1..Len(d) : d[i].key = k
    ELSE 0

\* nodes.setdefault(node_type, set()).add(property_name), app.py:151-154
AddNodeRow(d, row) ==
    LET node_type == Join(row.nodeLabels, <<":">>)
        i == KeyIndex(d, node_type)
    IN IF i = 0
       THEN Append(d, [key |-> node_type, props |-> {row.propertyName}])
       ELSE [d EXCEPT ![i].props = @ \cup {row.propertyName}]

\* the loop of app.py:150-154
RECURSIVE NodesDict(_, _)
NodesDict(rows, d) ==
    IF rows = <<>> THEN d ELSE NodesDict(Tail(rows), AddNodeRow(d, Head(rows)))

\* the loop of app.py:158-159
RelationshipSet(rows) == {rows[i] : i \in 1..Len(rows)}

\* app.py:164-166; po[i] is the order in which the set d[i].props is iterated
RECURSIVE NodeLines(_, _)
NodeLines(d, po) ==
    IF d = <<>> THEN <<>>
    ELSE <<"(">> \o Head(d).key \o <<")", " ", "h", "a", "s", " ", "p", "r", "o", "p", "e", "r", "t", "i", "e", "s", ":", " ">> \o Join(Head(po), <<",", " ">>) \o <<"\n">>
         \o NodeLines(Tail(d), Tail(po))

\* app.py:168-169; ro is the order in which the set relationships is iterated
RECURSIVE RelLines(_)
RelLines(ro) ==
    IF ro = <<>> THEN <<>>
    ELSE <<"(", ":", "N", "o", "d", "e", ")", "-", "[", ":">> \o Head(ro) \o <<"]", "-", ">", "(", ":", "N", "o", "d", "e", ")", "\n">> \o RelLines(Tail(ro))

\* the iteration orders of the property sets of d
PropOrders(d) ==
    {po \in [1..Len(d) -> UNION {Orders(d[i].props) : i \in 1..Len(d)}] :
        \A i \in 1..Len(d) : po[i] \in Orders(d[i].props)}

\* the texts app.py:162-171 can return for the dict d and the set rels
OntologyStrings(d, rels) ==
    {Strip(NodeLines(d, po) \o RelLines(ro)) : po \in PropOrders(d), ro \in Orders(rels)}

-----------------------------------------------------------------------------
(* Neo4j executing a generated query, app.py:212-214 *)

\* the store cannot execute an empty statement
Executable(q) == q # <<>>

\* a query with a CREATE clause adds a node when it is executed
IsWriteQuery(q) == Contains(q, <<"C", "R", "E", "A", "T", "E">>)

GraphAfter(g, q) == IF IsWriteQuery(q) THEN g \cup {CreatedNode} ELSE g

-----------------------------------------------------------------------------
(* process_query, app.py:183-223 *)

NoAnswer == <<"<process_query has not returned>">>

NoFault == [step |-> "none", msg |-> <<>>]

Terminal == {"Done", "Failed"}

\* the emptiness test of app.py:189 left out
IsFalsy_Never(list) == FALSE

\* app.py:189
IsFalsy(list) == list = <<>>

\* app.py:206 dropping only the lines that are exactly a fence marker
Sanitize_OnlyPure(q) ==
    IF StartsWith(q, Fence)
    THEN LET lines == SplitLines(q)
             kept  == SelectSeq(lines, LAMBDA line : Strip(line) # Fence)
         IN Strip(Join(kept, <<"\n">>))
    ELSE q

\* app.py:203-207
Sanitize(q) ==
    IF StartsWith(q, Fence)
    THEN LET lines == SplitLines(q)
             kept  == SelectSeq(lines, LAMBDA line : ~StartsWith(Strip(line), Fence))
         IN Strip(Join(kept, <<"\n">>))
    ELSE q

\* the handler re-raising instead of returning
OnException_Reraise(msg) ==
    /\ answer' = answer
    /\ pc' = "Failed"
    /\ raised' = TRUE

\* the handler returning a generic message without str(e)
OnException_Generic(msg) ==
    /\ answer' = ErrPrefix
    /\ pc' = "Failed"
    /\ raised' = raised

\* the handler attempting the failed step again (while the call log is short)
OnException_Retry(msg) ==
    IF Len(calls) < 12
    THEN /\ answer' = answer
         /\ pc' = pc
         /\ raised' = raised
    ELSE /\ answer' = ErrPrefix \o msg
         /\ pc' = "Failed"
         /\ raised' = raised

\* the handler swallowing the exception and going on to the summary
OnException_Resume(msg) ==
    IF Len(calls) < 12
    THEN /\ answer' = answer
         /\ pc' = "Summarizing"
         /\ raised' = raised
    ELSE /\ answer' = ErrPrefix \o msg
         /\ pc' = "Failed"
         /\ raised' = raised

\* the handler going on with an empty schema when introspection failed
OnException_FallbackSchema(msg) ==
    IF pc \in {"Introspecting", "IntrospectingRels"}
    THEN /\ answer' = answer
         /\ pc' = "GeneratingQuery"
         /\ raised' = raised
    ELSE /\ answer' = ErrPrefix \o msg
         /\ pc' = "Failed"
         /\ raised' = raised

\* the handler asking Gemini for another query when the execution failed
OnException_Regenerate(msg) ==
    IF pc = "Executing" /\ Len(calls) < 12
    THEN /\ answer' = answer
         /\ pc' = "GeneratingQuery"
         /\ raised' = raised
    ELSE /\ answer' = ErrPrefix \o msg
         /\ pc' = "Failed"
         /\ raised' = raised

\* app.py:222-223: the handler of every exception raised inside the try block
OnException(msg) ==
    /\ answer' = ErrPrefix \o msg
    /\ pc' = "Failed"
    /\ raised' = raised

\* a collaborator call of step raises an exception whose str() is msg
Raise(step, msg) ==
    /\ fault' = [step |-> step, msg |-> msg]
    /\ OnException(msg)

\* app.py:220 returning summary.strip()
ReturnSummary_Stripped(text) ==
    /\ answer' = Strip(text)
    /\ pc' = "Done"

\* app.py:220
ReturnSummary(text) ==
    /\ answer' = text
    /\ pc' = "Done"

\* no harness is in use and no request was submitted to handle_user_input
ExtIdle ==
    /\ r_in = <<>>
    /\ r_out = <<>>
    /\ o_in = <<>>
    /\ o_out = <<>>
    /\ t_pc = <<>>
    /\ t_input = <<>>
    /\ t_frame = <<>>
    /\ t_log = <<>>
    /\ t_answer = <<>>
    /\ t_driver = <<>>

Init ==
    /\ pc = "Idle"
    /\ user_input = <<>>
    /\ query_embedding = 0
    /\ vector_results = <<>>
    /\ context = <<>>
    /\ nodes = <<>>
    /\ relationships = {}
    /\ ontology = <<>>
    /\ cypher_prompt = <<>>
    /\ llm_raw = <<>>
    /\ generated_query = <<>>
    /\ records = <<>>
    /\ summary_prompt = <<>>
    /\ summary = <<>>
    /\ llm_in = <<>>
    /\ answer = NoAnswer
    /\ raised = FALSE
    /\ graph \in Graphs
    /\ graph0 = graph
    /\ calls = <<>>
    /\ fault = NoFault
    /\ p_in = <<>>
    /\ p_out = <<>>
    /\ ExtIdle

\* handle_user_input calls process_query, app.py:240
ProcessQuery ==
    /\ pc = "Idle"
    /\ \E u \in UserInputs : user_input' = u
    /\ pc' = "Embedding"
    /\ UNCHANGED <<query_embedding, vector_results, context, nodes, relationships,
                   ontology, cypher_prompt, llm_raw, generated_query, records,
                   summary_prompt, summary, llm_in, answer, raised, graph, graph0,
                   calls, fault, p_in, p_out, ext>>

\* app.py:186
GenerateEmbedding ==
    /\ pc = "Embedding"
    /\ calls' = Append(calls, "generate_embedding")
    /\ \/ /\ \E e \in Embeddings : query_embedding' = e
          /\ pc' = "Retrieving"
          /\ UNCHANGED <<answer, raised, fault>>
       \/ /\ \E msg \in FaultMsgs : Raise("generate_embedding", msg)
          /\ UNCHANGED query_embedding
    /\ UNCHANGED <<user_input, vector_results, context, nodes, relationships,
                   ontology, cypher_prompt, llm_raw, generated_query, records,
                   summary_prompt, summary, llm_in, graph, graph0, p_in, p_out, ext>>

\* app.py:187-195
VectorSearch ==
    /\ pc = "Retrieving"
    /\ calls' = Append(calls, "vector_search")
    /\ \/ /\ \E res \in get_movie_recommendations_by_vector(graph, query_embedding, top_k) :
                /\ vector_results' = res
                /\ IF IsFalsy(res)
                   THEN /\ answer' = NoResultsMsg
                        /\ pc' = "Done"
                        /\ context' = context
                   ELSE /\ context' = FormatContext(res)
                        /\ pc' = "Introspecting"
                        /\ answer' = answer
          /\ UNCHANGED <<raised, fault>>
       \/ /\ \E msg \in FaultMsgs : Raise("vector_search", msg)
          /\ UNCHANGED <<vector_results, context>>
    /\ UNCHANGED <<user_input, query_embedding, nodes, relationships, ontology,
                   cypher_prompt, llm_raw, generated_query, records, summary_prompt,
                   summary, llm_in, graph, graph0, p_in, p_out, ext>>

\* app.py:198, 144-154
NodeTypeProperties ==
    /\ pc = "Introspecting"
    /\ calls' = Append(calls, "nodeTypeProperties")
    /\ \/ /\ \E rows \in SeqUpTo(NodeRowValues, MaxNodeRows) : nodes' = NodesDict(rows, <<>>)
          /\ pc' = "IntrospectingRels"
          /\ UNCHANGED <<answer, raised, fault>>
       \/ /\ \E msg \in FaultMsgs : Raise("nodeTypeProperties", msg)
          /\ UNCHANGED nodes
    /\ UNCHANGED <<user_input, query_embedding, vector_results, context, relationships,
                   ontology, cypher_prompt, llm_raw, generated_query, records,
                   summary_prompt, summary, llm_in, graph, graph0, p_in, p_out, ext>>

\* app.py:156-171
RelationshipTypes ==
    /\ pc = "IntrospectingRels"
    /\ calls' = Append(calls, "relationshipTypes")
    /\ \/ /\ \E rows \in SeqUpTo(RelTypeValues, MaxRelRows) :
                /\ relationships' = RelationshipSet(rows)
                /\ \E text \in OntologyStrings(nodes, RelationshipSet(rows)) : ontology' = text
          /\ pc' = "GeneratingQuery"
          /\ UNCHANGED <<answer, raised, fault>>
       \/ /\ \E msg \in FaultMsgs : Raise("relationshipTypes", msg)
          /\ UNCHANGED <<relationships, ontology>>
    /\ UNCHANGED <<user_input, query_embedding, vector_results, context, nodes,
                   cypher_prompt, llm_raw, generated_query, records, summary_prompt,
                   summary, llm_in, graph, graph0, p_in, p_out, ext>>

\* app.py:199-200, with texts the texts Gemini can answer the prompt with
GenerateQueryFrom(texts) ==
    /\ pc = "GeneratingQuery"
    /\ LET prompt == cypher_generation_prompt(user_input, context, ontology)
       IN /\ cypher_prompt' = <<prompt>>
          /\ llm_in' = Append(llm_in, prompt)
    /\ calls' = calls \o <<"cypher_generation_prompt", "generate_query">>
    /\ \/ /\ \E text \in texts :
                /\ llm_raw' = text
                /\ generated_query' = Strip(text)
          /\ pc' = "Sanitizing"
          /\ UNCHANGED <<answer, raised, fault>>
       \/ /\ \E msg \in FaultMsgs : Raise("generate_query", msg)
          /\ UNCHANGED <<llm_raw, generated_query>>
    /\ UNCHANGED <<user_input, query_embedding, vector_results, context, nodes,
                   relationships, ontology, records, summary_prompt, summary,
                   graph, graph0, p_in, p_out, ext>>

\* app.py:199-200
GenerateQuery == GenerateQueryFrom(GeneratedTexts)

\* app.py:203-207 repeated for as long as the query it leaves is empty
Sanitizing_WhileEmpty ==
    /\ pc = "Sanitizing"
    /\ generated_query' = Sanitize(generated_query)
    /\ pc' = IF Sanitize(generated_query) = <<>> THEN "Sanitizing" ELSE "Executing"
    /\ UNCHANGED <<user_input, query_embedding, vector_results, context, nodes,
                   relationships, ontology, cypher_prompt, llm_raw, records,
                   summary_prompt, summary, llm_in, answer, raised, graph, graph0,
                   calls, fault, p_in, p_out, ext>>

\* app.py:203-209
Sanitizing ==
    /\ pc = "Sanitizing"
    /\ generated_query' = Sanitize(generated_query)
    /\ pc' = "Executing"
    /\ UNCHANGED <<user_input, query_embedding, vector_results, context, nodes,
                   relationships, ontology, cypher_prompt, llm_raw, records,
                   summary_prompt, summary, llm_in, answer, raised, graph, graph0,
                   calls, fault, p_in, p_out, ext>>

\* app.py:212-214
RunQuery ==
    /\ pc = "Executing"
    /\ calls' = Append(calls, "run_query")
    /\ \/ /\ Executable(generated_query)
          /\ \E rs \in ResultSets : records' = rs
          /\ graph' = GraphAfter(graph, generated_query)
          /\ pc' = "Summarizing"
          /\ UNCHANGED <<answer, raised, fault>>
       \/ /\ \E msg \in FaultMsgs : Raise("run_query", msg)
          /\ UNCHANGED <<records, graph>>
    /\ UNCHANGED <<user_input, query_embedding, vector_results, context, nodes,
                   relationships, ontology, cypher_prompt, llm_raw, generated_query,
                   summary_prompt, summary, llm_in, graph0, p_in, p_out, ext>>

\* app.py:217-220
Summarize ==
    /\ pc = "Summarizing"
    /\ LET prompt == summarize_results_prompt(user_input,
                        [query |-> generated_query, results |-> records],
                        Len(records), ListStr(records))
       IN /\ summary_prompt' = <<prompt>>
          /\ llm_in' = Append(llm_in, prompt)
    /\ calls' = calls \o <<"summarize_results_prompt", "summarize">>
    /\ \/ /\ \E text \in SummaryTexts :
                /\ summary' = text
                /\ ReturnSummary(text)
          /\ UNCHANGED <<raised, fault>>
       \/ /\ \E msg \in FaultMsgs : Raise("summarize", msg)
          /\ UNCHANGED summary
    /\ UNCHANGED <<user_input, query_embedding, vector_results, context, nodes,
                   relationships, ontology, cypher_prompt, llm_raw, generated_query,
                   records, graph, graph0, p_in, p_out, ext>>

Next ==
    \/ ProcessQuery
    \/ GenerateEmbedding
    \/ VectorSearch
    \/ NodeTypeProperties
    \/ RelationshipTypes
    \/ GenerateQuery
    \/ Sanitizing
    \/ RunQuery
    \/ Summarize

Spec == Init /\ [][Next]_vars

-----------------------------------------------------------------------------
(* The prompt builder summarize_results_prompt applied to bounded inputs *)

\* a text of n characters whose characters vary with their position
LongText(n) == [i \in 1..n |-> Digit[(i % 10) + 1]]

FormattedLengths ==
    {0, 1, TruncLimit - 1, TruncLimit} \cup ((TruncLimit + 1)..(TruncLimit + MaxExtra))

PromptInputs ==
    [query : UserInputs,
     cypher_results : {[query |-> q, results |-> <<>>] : q \in {<<>>, <<"M", "A", "T", "C", "H", " ", "(", "m", ")", " ", "R", "E", "T", "U", "R", "N", " ", "m">>}},
     result_count : 0..MaxCount,
     formatted : {LongText(n) : n \in FormattedLengths}]

InitPrompt ==
    /\ pc = "Idle"
    /\ user_input = <<>>
    /\ query_embedding = 0
    /\ vector_results = <<>>
    /\ context = <<>>
    /\ nodes = <<>>
    /\ relationships = {}
    /\ ontology = <<>>
    /\ cypher_prompt = <<>>
    /\ llm_raw = <<>>
    /\ generated_query = <<>>
    /\ records = <<>>
    /\ summary_prompt = <<>>
    /\ summary = <<>>
    /\ llm_in = <<>>
    /\ answer = NoAnswer
    /\ raised = FALSE
    /\ graph = {}
    /\ graph0 = {}
    /\ calls = <<>>
    /\ fault = NoFault
    /\ \E in \in PromptInputs : p_in = <<in>>
    /\ p_out = <<>>
    /\ ExtIdle

\* one application of summarize_results_prompt, prompts.py:51-90
ComposeSummaryPrompt ==
    /\ p_in # <<>>
    /\ p_out = <<>>
    /\ p_out' = <<summarize_results_prompt(p_in[1].query, p_in[1].cypher_results,
                                           p_in[1].result_count, p_in[1].formatted)>>
    /\ UNCHANGED <<pc, user_input, query_embedding, vector_results, context, nodes,
                   relationships, ontology, cypher_prompt, llm_raw, generated_query,
                   records, summary_prompt, summary, llm_in, answer, raised, graph,
                   graph0, calls, fault, p_in, ext>>

NextPrompt == ComposeSummaryPrompt

SpecPrompt == InitPrompt /\ [][NextPrompt]_vars

-----------------------------------------------------------------------------
(* Properties *)

Called(op) == \E i \in 1..Len(calls) : calls[i] = op

Count(op) == Cardinality({i \in 1..Len(calls) : calls[i] = op})

\* the call op was made and returned normally
Returned(op) == Called(op) /\ fault.step # op

\* C1: for every input and every combination of outcomes of the collaborator
\* calls, process_query returns a string and never raises: no exception leaves
\* it, and once a call has raised, a string has been returned.
C1_NeverRaises ==
    /\ ~raised
    /\ pc \in Terminal => answer # NoAnswer
    /\ fault.step # "none" => pc = "Failed" /\ answer # NoAnswer

C1_Witness == pc = "Failed" /\ fault.step # "none" /\ answer # NoAnswer

\* C2: in every terminal state of a request the Answer returned by
\* process_query is a non-null, non-empty string.
C2_AnswerNonEmpty == pc \in Terminal => answer # NoAnswer /\ answer # <<>>

\* C3: if the vector search returns zero candidates, process_query goes
\* directly to Done with the fixed "no relevant results" Answer, and neither the
\* prompt builders, Gemini, the schema introspection nor the query execution
\* are invoked in that request.
C3_EmptyRetrievalShortCircuits ==
    (Returned("vector_search") /\ vector_results = <<>>) =>
        /\ pc = "Done"
        /\ answer = NoResultsMsg
        /\ calls = <<"generate_embedding", "vector_search">>
        /\ llm_in = <<>>

C3_Witness ==
    /\ Returned("vector_search")
    /\ vector_results = <<>>
    /\ answer = NoResultsMsg

\* C4: no request changes the contents of the graph store: the graph after the
\* request equals the graph before it, whatever text Gemini returns as the
\* generated query.
C4_GraphUnchanged == graph = graph0

\* the query-generation call returned and app.py:203-207 has run
Sanitized == Returned("generate_query") /\ pc # "Sanitizing"

IsFenceLine(line) == StartsWith(Strip(line), Fence)

IsPureFence(line) == Strip(line) = Fence

\* the lines of ls that are not fence lines, in their order
RECURSIVE NonFenceLines(_)
NonFenceLines(ls) ==
    IF ls = <<>> THEN <<>>
    ELSE IF IsFenceLine(Head(ls)) THEN NonFenceLines(Tail(ls))
    ELSE <<Head(ls)>> \o NonFenceLines(Tail(ls))

\* the lines of ls left when the first fence line, the last fence line and
\* every pure fence marker are removed
WithoutOuterAndPureFences(ls) ==
    LET F == {i \in 1..Len(ls) : IsFenceLine(ls[i])}
        first == CHOOSE i \in F : \A j \in F : i <= j
        last  == CHOOSE i \in F : \A j \in F : j <= i
        Keep(i) == ~(F # {} /\ i \in {first, last}) /\ ~IsPureFence(ls[i])
        idx == {i \in 1..Len(ls) : Keep(i)}
        RECURSIVE Pick(_)
        Pick(i) == IF i > Len(ls) THEN <<>>
                   ELSE (IF i \in idx THEN <<ls[i]>> ELSE <<>>) \o Pick(i + 1)
    IN Pick(1)

FencedExample == Fence \o <<"c", "y", "p", "h", "e", "r">> \o <<"\n">> \o <<"M", "A", "T", "C", "H", " ", "(", "m", ")", " ", "R", "E", "T", "U", "R", "N", " ", "m">> \o <<"\n">> \o Fence

IsTrimOf(g, s) ==
    \E i \in 0..Len(s) : \E j \in i..Len(s) :
        /\ g = SubSeq(s, i + 1, j)
        /\ \A k \in 1..i : s[k] \in Whitespace
        /\ \A k \in (j + 1)..Len(s) : s[k] \in Whitespace
        /\ g # <<>> => g[1] \notin Whitespace /\ g[Len(g)] \notin Whitespace

\* C6 as stated: for every output of Gemini that contains no fence marker, the
\* GeneratedQuery handed to the execution is that output unchanged.
C6_NoFencePassesUnchanged ==
    (Sanitized /\ ~Contains(llm_raw, Fence)) => generated_query = llm_raw

\* C6 amended: for every output of Gemini that contains no fence marker, the
\* GeneratedQuery handed to the execution is that output with the whitespace at
\* its two ends removed and nothing else changed.
C6_NoFencePassesTrimmed ==
    (Sanitized /\ ~Contains(llm_raw, Fence)) => IsTrimOf(generated_query, llm_raw)

C6_Witness ==
    /\ Sanitized
    /\ pc = "Executing"
    /\ ~Contains(llm_raw, Fence)
    /\ generated_query # llm_raw
    /\ generated_query # <<>>

\* C7: if executing the GeneratedQuery faults, whatever the fault message,
\* process_query returns a failure Answer made of the failure indicator followed
\* by the store's message, the summarization call is not made and nothing is
\* raised to the caller.
C7_ExecutionFaultReported ==
    fault.step = "run_query" =>
        /\ pc = "Failed"
        /\ StartsWith(answer, ErrPrefix)
        /\ SubSeq(answer, Len(ErrPrefix) + 1, Len(answer)) = fault.msg
        /\ ~Called("summarize")
        /\ ~Called("summarize_results_prompt")
        /\ Len(llm_in) = 1
        /\ ~raised

C7_Witness ==
    /\ fault.step = "run_query"
    /\ fault.msg # <<>>
    /\ pc = "Failed"
    /\ Contains(answer, fault.msg)

\* C8: nothing is retried: within one request every collaborator call and
\* every prompt builder is invoked at most once, also after a step has failed.
C8_NoRetry == \A i, j \in 1..Len(calls) : calls[i] = calls[j] => i = j

C8_Witness ==
    /\ pc = "Failed"
    /\ fault.step = "summarize"
    /\ Count("run_query") = 1
    /\ Count("summarize") = 1

\* C10: whenever the execution of the GeneratedQuery succeeds, for a ResultSet
\* of any length, the summary prompt is built from that ResultSet and submitted
\* to Gemini exactly once, and what Gemini returns is the Answer, verbatim.
C10_SummaryReturnedVerbatim ==
    (Returned("run_query") /\ pc \in Terminal) =>
        /\ Count("summarize") = 1
        /\ Len(llm_in) = 2
        /\ llm_in[2].question = user_input
        /\ llm_in[2].cypher = generated_query
        /\ llm_in[2].count = IntStr(Len(records))
        /\ llm_in[2].results =
              (IF records = <<>> THEN NoResultsFound ELSE Slice(ListStr(records), TruncLimit))
        /\ pc = "Done" => answer = summary

C10_Witness ==
    /\ Returned("run_query")
    /\ pc = "Done"
    /\ records = <<>>
    /\ summary # <<>>
    /\ summary # Strip(summary)
    /\ answer = summary

\* C9: for every result count greater than zero, a serialized result string
\* longer than 4000 characters is embedded in the results section as exactly
\* its first 4000 characters, and a string of at most 4000 characters is
\* embedded whole.
C9_TruncatesTo4000 ==
    (p_out # <<>> /\ p_in[1].result_count > 0) =>
        LET f == p_in[1].formatted
            r == p_out[1].results
        IN IF Len(f) > 4000
           THEN Len(r) = 4000 /\ \A i \in 1..4000 : r[i] = f[i]
           ELSE r = f

C9_Witness ==
    /\ p_out # <<>>
    /\ p_in[1].result_count > 0
    /\ Len(p_in[1].formatted) > 4000
    /\ Len(p_out[1].results) = 4000

-----------------------------------------------------------------------------
(* get_movie_recommendations_by_vector applied to bounded inputs *)

\* the variables of process_query
locals == <<pc, user_input, query_embedding, vector_results, context, nodes,
            relationships, ontology, cypher_prompt, llm_raw, generated_query,
            records, summary_prompt, summary, llm_in, answer, raised, calls, fault>>

\* the variables of process_query and the store it talks to
pipeline == <<locals, graph, graph0>>

\* process_query was not called
LocalsIdle ==
    /\ pc = "Idle"
    /\ user_input = <<>>
    /\ query_embedding = 0
    /\ vector_results = <<>>
    /\ context = <<>>
    /\ nodes = <<>>
    /\ relationships = {}
    /\ ontology = <<>>
    /\ cypher_prompt = <<>>
    /\ llm_raw = <<>>
    /\ generated_query = <<>>
    /\ records = <<>>
    /\ summary_prompt = <<>>
    /\ summary = <<>>
    /\ llm_in = <<>>
    /\ answer = NoAnswer
    /\ raised = FALSE
    /\ calls = <<>>
    /\ fault = NoFault

\* process_query was not called and no store is connected
PipelineIdle ==
    /\ LocalsIdle
    /\ graph = {}
    /\ graph0 = {}

RetrievalInputs ==
    [graph : SUBSET {Movie(i) : i \in 1..MaxIndexed},
     embedding : {1, 2},
     top_k : 1..MaxTopK]

InitRetrieve ==
    /\ PipelineIdle
    /\ p_in = <<>>
    /\ p_out = <<>>
    /\ \E in \in RetrievalInputs : r_in = <<in>>
    /\ r_out = <<>>
    /\ o_in = <<>>
    /\ o_out = <<>>
    /\ t_pc = <<>>
    /\ t_input = <<>>
    /\ t_frame = <<>>
    /\ t_log = <<>>
    /\ t_answer = <<>>
    /\ t_driver = <<>>

\* one call of get_movie_recommendations_by_vector, app.py:66-107
Retrieve ==
    /\ r_in # <<>>
    /\ r_out = <<>>
    /\ \E res \in get_movie_recommendations_by_vector(r_in[1].graph, r_in[1].embedding,
                                                      r_in[1].top_k) :
          r_out' = <<res>>
    /\ UNCHANGED <<pipeline, p_in, p_out, r_in, o_in, o_out, t_pc, t_input, t_frame,
                   t_log, t_answer, t_driver>>

NextRetrieve == Retrieve

SpecRetrieve == InitRetrieve /\ [][NextRetrieve]_vars

-----------------------------------------------------------------------------
(* the order of the collaborator calls of one request *)

\* the calls process_query makes to its collaborators, in program order
ExternalOrder ==
    <<"generate_embedding", "vector_search", "nodeTypeProperties", "relationshipTypes",
      "generate_query", "run_query", "summarize">>

IsExternal(c) == \E i \in 1..Len(ExternalOrder) : ExternalOrder[i] = c

ExternalCalls == SelectSeq(calls, IsExternal)

\* C13: within one request the collaborator calls occur in the order embedding,
\* vector retrieval, schema introspection, query generation, query execution,
\* summarization; a call is made only when every earlier one has returned
\* normally, and the call that failed is the last call of the request.
C13_CallsInPipelineOrder ==
    LET made == ExternalCalls
        n == Len(made)
    IN /\ n <= Len(ExternalOrder)
       /\ made = SubSeq(ExternalOrder, 1, n)
       /\ fault.step # "none" =>
             /\ n > 0
             /\ made[n] = fault.step
             /\ pc = "Failed"
       /\ \A i \in 1..n - 1 : fault.step # made[i]

C13_Witness ==
    /\ pc = "Failed"
    /\ fault.step = "run_query"
    /\ ExternalCalls = SubSeq(ExternalOrder, 1, 6)

\* C14: when one of the two schema-introspection queries fails, the request is
\* Failed with the failure Answer; no schema text exists, no prompt was sent to
\* Gemini, and neither the generated query nor the summary was asked for.
C14_IntrospectionFaultIsFatal ==
    fault.step \in {"nodeTypeProperties", "relationshipTypes"} =>
        /\ pc = "Failed"
        /\ answer = ErrPrefix \o fault.msg
        /\ ontology = <<>>
        /\ cypher_prompt = <<>>
        /\ llm_in = <<>>
        /\ ~Called("generate_query")
        /\ ~Called("run_query")
        /\ ~Called("summarize")

C14_Witness ==
    /\ fault.step = "relationshipTypes"
    /\ nodes # <<>>
    /\ pc = "Failed"
    /\ StartsWith(answer, ErrPrefix)

-----------------------------------------------------------------------------
(* get_ontology_from_neo4j applied to bounded store responses *)

\* Python's None: the propertyName of a node type that has no properties
None == <<"None">>

\* str() of the TypeError of str.join on a non-string item
JoinTypeError == <<"s", "e", "q", "u", "e", "n", "c", "e", " ", "i", "t", "e", "m">>

OntologyNodeRows ==
    [nodeLabels : {<< <<"M", "o", "v", "i", "e">> >>,
                   << <<"P", "e", "r", "s", "o", "n">>, <<"A", "c", "t", "o", "r">> >>},
     propertyName : {<<"t", "i", "t", "l", "e">>, <<"n", "a", "m", "e">>, None}]

OntologyRelRows == {<<"A", "C", "T", "E", "D", "_", "I", "N">>, <<"D", "I", "R", "E", "C", "T", "E", "D">>}

OntologyInputs ==
    [nodeRows : SeqUpTo(OntologyNodeRows, MaxOntNodeRows),
     relRows : SeqUpTo(OntologyRelRows, MaxOntRelRows)]

\* app.py:143-171: the outcomes of one call for the given store responses;
\* ", ".join(props) of app.py:165 raises TypeError when props holds None
get_ontology_from_neo4j(nodeRows, relRows) ==
    LET d == NodesDict(nodeRows, <<>>)
        rels == RelationshipSet(relRows)
    IN IF \E i \in 1..Len(d) : None \in d[i].props
       THEN {[raised |-> TRUE, text |-> JoinTypeError]}
       ELSE {[raised |-> FALSE, text |-> t] : t \in OntologyStrings(d, rels)}

InitOntology ==
    /\ PipelineIdle
    /\ p_in = <<>>
    /\ p_out = <<>>
    /\ r_in = <<>>
    /\ r_out = <<>>
    /\ \E in \in OntologyInputs : o_in = <<in>>
    /\ o_out = <<>>
    /\ t_pc = <<>>
    /\ t_input = <<>>
    /\ t_frame = <<>>
    /\ t_log = <<>>
    /\ t_answer = <<>>
    /\ t_driver = <<>>

\* one call of get_ontology_from_neo4j
Introspect ==
    /\ o_in # <<>>
    /\ o_out = <<>>
    /\ \E out \in get_ontology_from_neo4j(o_in[1].nodeRows, o_in[1].relRows) :
          o_out' = <<out>>
    /\ UNCHANGED <<pipeline, p_in, p_out, r_in, r_out, o_in, t_pc, t_input, t_frame,
                   t_log, t_answer, t_driver>>

NextOntology == Introspect

SpecOntology == InitOntology /\ [][NextOntology]_vars

\* the distinct elements of rows in the order of their first occurrence
RECURSIVE FirstOccurrences(_)
FirstOccurrences(rows) ==
    IF rows = <<>> THEN <<>>
    ELSE LET init == FirstOccurrences(SubSeq(rows, 1, Len(rows) - 1))
             last == rows[Len(rows)]
         IN IF \E i \in 1..Len(init) : init[i] = last THEN init ELSE Append(init, last)

NodeTypeOf(row) == Join(row.nodeLabels, <<":">>)

NodeLinePrefix(t) ==
    <<"(">> \o t \o <<")", " ", "h", "a", "s", " ", "p", "r", "o", "p", "e", "r", "t", "i", "e", "s", ":", " ">>

RelationshipLine(r) ==
    <<"(", ":", "N", "o", "d", "e", ")", "-", "[", ":">> \o r \o <<"]", "-", ">", "(", ":", "N", "o", "d", "e", ")">>

\* the property names the rows nrows give for the node type t
PropsOfType(nrows, t) ==
    {nrows[i].propertyName : i \in {k \in 1..Len(nrows) : NodeTypeOf(nrows[k]) = t}}

\* the line of node type t, with its property names in any order
NodeLineChoices(nrows, t) ==
    {NodeLinePrefix(t) \o Join(po, <<",", " ">>) : po \in Orders(PropsOfType(nrows, t))}

\* the texts made of one line for each node type of types, in that order,
\* followed by one line for each relationship type of rels, in that order
SchemaTexts(nrows, types, rels) ==
    LET choices == UNION {NodeLineChoices(nrows, types[i]) : i \in 1..Len(types)}
    IN {Join(ls \o [j \in 1..Len(rels) |-> RelationshipLine(rels[j])], <<"\n">>) :
          ls \in {f \in [1..Len(types) -> choices] :
                     \A i \in 1..Len(types) : f[i] \in NodeLineChoices(nrows, types[i])}}

\* C16: the schema text follows the order of the store's responses: the i-th
\* line is the line of the i-th node type first returned by the store, the
\* relationship lines follow in the order in which the store returned the
\* relationship types, whatever order the set of relationship types is
\* iterated in.
C16_LinesInStoreOrder ==
    (o_out # <<>> /\ ~o_out[1].raised) =>
        LET nrows == o_in[1].nodeRows
            types == FirstOccurrences([i \in 1..Len(nrows) |-> NodeTypeOf(nrows[i])])
            rels  == FirstOccurrences(o_in[1].relRows)
        IN o_out[1].text \in SchemaTexts(nrows, types, rels)

\* C17: for every pair of introspection responses a schema text is produced;
\* it has one line per distinct node type, listing the distinct property names
\* of that type once each, then one line per distinct relationship type, and
\* nothing else.
C17_OneLinePerTypeNoDuplicates ==
    o_out # <<>> =>
        LET nrows == o_in[1].nodeRows
            types == {NodeTypeOf(nrows[i]) : i \in 1..Len(nrows)}
            rels  == {o_in[1].relRows[i] : i \in 1..Len(o_in[1].relRows)}
        IN /\ ~o_out[1].raised
           /\ \E to \in Orders(types), ro \in Orders(rels) :
                 o_out[1].text \in SchemaTexts(nrows, to, ro)

-----------------------------------------------------------------------------
(* termination of process_query *)

\* the answers of Gemini to the query-generation prompt in the termination
\* check: fence lines and query lines in every combination
LiveTexts ==
    {Join(ls, <<"\n">>) :
        ls \in SeqUpTo({Fence, <<"R", "E", "T", "U", "R", "N", " ", "1">>}, MaxLines)}

GenerateQueryLive == GenerateQueryFrom(LiveTexts)

NextLive ==
    \/ ProcessQuery
    \/ GenerateEmbedding
    \/ VectorSearch
    \/ NodeTypeProperties
    \/ RelationshipTypes
    \/ GenerateQueryLive
    \/ Sanitizing
    \/ RunQuery
    \/ Summarize

\* every collaborator call returns or raises, and the interpreter keeps
\* executing process_query: a step that is possible is eventually taken
SpecLive == Init /\ [][NextLive]_vars /\ WF_vars(NextLive)

\* C18: every request terminates: process_query eventually is Done or Failed,
\* provided each collaborator call eventually returns or fails.
C18_EventuallyTerminal == <>(pc \in Terminal)

C18_Witness ==
    /\ pc = "Done"
    /\ Returned("summarize")
    /\ Len(ExternalCalls) = Len(ExternalOrder)
    /\ answer = summary

-----------------------------------------------------------------------------
(* handle_user_input serving two requests at the same time, app.py:229-243 *)

Requests == {1, 2}

\* the locals of all calls kept in one place
Slot_Shared(i) == 1

\* app.py:231-240: every call of handle_user_input builds its own
\* MovieRecommendationApp and has its own locals
Slot(i) == i

\* the locals of process_query before its first statement
EmptyFrame ==
    [user_input |-> <<>>, query_embedding |-> 0, vector_results |-> <<>>,
     context |-> <<>>, ontology |-> <<>>, generated_query |-> <<>>, records |-> <<>>]

\* the answers of Gemini to the query-generation prompt while serving
ServeTexts ==
    {Fence \o <<"\n">> \o <<"M", "A", "T", "C", "H", " ", "(", "m", ")", " ", "R", "E", "T", "U", "R", "N", " ", "m">>,
     <<" ", " ", "C", "R", "E", "A", "T", "E", " ", "(", "n", ")">>}

\* the exception messages while serving
ServeFaultMsgs == {<<"t", "i", "m", "e", "o", "u", "t">>}

\* the contents of the store while serving
ServeGraphs == {{}, {Movie(1)}}

\* the inputs of the two requests: different ones, or twice the same
ServeInputs ==
    {<<<<"t", "i", "m", "e", " ", "t", "r", "a", "v", "e", "l">>, <<"?">>>>,
     <<<<"?">>, <<"?">>>>}

\* the rows the two introspection queries and the generated query return
\* while serving
ServeNodeRows == {<<>>, <<[nodeLabels |-> << <<"M", "o", "v", "i", "e">> >>, propertyName |-> <<"t", "i", "t", "l", "e">>]>>}

ServeRelRows == {<<<<"A", "C", "T", "E", "D", "_", "I", "N">>>>}

ServeResultSets == {<<>>, <<[title |-> <<"T", "1">>]>>}

Ended == {"Returned", "Raised"}

InitServe ==
    /\ LocalsIdle
    /\ graph \in ServeGraphs
    /\ graph0 = graph
    /\ p_in = <<>>
    /\ p_out = <<>>
    /\ r_in = <<>>
    /\ r_out = <<>>
    /\ o_in = <<>>
    /\ o_out = <<>>
    /\ t_pc = [i \in Requests |-> "Start"]
    /\ t_input \in ServeInputs
    /\ t_frame = [i \in Requests |-> EmptyFrame]
    /\ t_log = [i \in Requests |-> <<>>]
    /\ t_answer = [i \in Requests |-> NoAnswer]
    /\ t_driver = [i \in Requests |-> "none"]

Frame(i) == t_frame[Slot(i)]

SetFrame(i, f) == t_frame' = [t_frame EXCEPT ![Slot(i)] = f]

Goto(i, label) == t_pc' = [t_pc EXCEPT ![i] = label]

\* the call op(arg) of request i returned out (ok) or raised an exception
\* whose str() is out
Logged(i, op, arg, ok, out) ==
    t_log' = [t_log EXCEPT ![i] = Append(@, [op |-> op, arg |-> arg, ok |-> ok, out |-> out])]

\* app.py:222-223 followed by the finally clause of app.py:242-243
Caught(i, op, arg) ==
    \E msg \in ServeFaultMsgs :
        /\ Logged(i, op, arg, FALSE, msg)
        /\ t_answer' = [t_answer EXCEPT ![i] = ErrPrefix \o msg]
        /\ Goto(i, "Closing")
        /\ UNCHANGED t_frame

\* a constructor of app.py:179-181 raises: handle_user_input raises at app.py:231
CtorRaises(i) ==
    /\ Goto(i, "Raised")
    /\ UNCHANGED t_driver

\* Gradio calls handle_user_input(user_input), app.py:229
Submit(i) ==
    /\ t_pc[i] = "Start"
    /\ SetFrame(i, [EmptyFrame EXCEPT !.user_input = t_input[i]])
    /\ Goto(i, "Neo4jDatabase")
    /\ UNCHANGED <<locals, graph, graph0, p_in, p_out, r_in, r_out, o_in, o_out,
                   t_input, t_log, t_answer, t_driver>>

\* app.py:179, 30: GraphDatabase.driver(...)
OpenDriver(i) ==
    /\ t_pc[i] = "Neo4jDatabase"
    /\ \/ /\ t_driver' = [t_driver EXCEPT ![i] = "open"]
          /\ Goto(i, "GeminiService")
       \/ CtorRaises(i)
    /\ UNCHANGED <<locals, graph, graph0, p_in, p_out, r_in, r_out, o_in, o_out,
                   t_input, t_frame, t_log, t_answer>>

\* app.py:180, 130-137
InitGemini(i) ==
    /\ t_pc[i] = "GeminiService"
    /\ \/ Goto(i, "VectorService") /\ UNCHANGED t_driver
       \/ CtorRaises(i)
    /\ UNCHANGED <<locals, graph, graph0, p_in, p_out, r_in, r_out, o_in, o_out,
                   t_input, t_frame, t_log, t_answer>>

\* app.py:181, 112-115
InitVectorService(i) ==
    /\ t_pc[i] = "VectorService"
    /\ \/ Goto(i, "Embedding") /\ UNCHANGED t_driver
       \/ CtorRaises(i)
    /\ UNCHANGED <<locals, graph, graph0, p_in, p_out, r_in, r_out, o_in, o_out,
                   t_input, t_frame, t_log, t_answer>>

\* app.py:186
Embed(i) ==
    /\ t_pc[i] = "Embedding"
    /\ LET f == Frame(i)
       IN \/ \E e \in Embeddings :
                /\ Logged(i, "generate_embedding", f.user_input, TRUE, e)
                /\ SetFrame(i, [f EXCEPT !.query_embedding = e])
                /\ Goto(i, "Retrieving")
                /\ UNCHANGED t_answer
          \/ Caught(i, "generate_embedding", f.user_input)
    /\ UNCHANGED <<locals, graph, graph0, p_in, p_out, r_in, r_out, o_in, o_out,
                   t_input, t_driver>>

\* app.py:187-195
Search(i) ==
    /\ t_pc[i] = "Retrieving"
    /\ LET f == Frame(i)
       IN \/ \E res \in get_movie_recommendations_by_vector(graph, f.query_embedding, top_k) :
                /\ Logged(i, "vector_search", f.query_embedding, TRUE, res)
                /\ IF IsFalsy(res)
                   THEN /\ SetFrame(i, [f EXCEPT !.vector_results = res])
                        /\ t_answer' = [t_answer EXCEPT ![i] = NoResultsMsg]
                        /\ Goto(i, "Closing")
                   ELSE /\ SetFrame(i, [f EXCEPT !.vector_results = res,
                                                 !.context = FormatContext(res)])
                        /\ Goto(i, "Introspecting")
                        /\ UNCHANGED t_answer
          \/ Caught(i, "vector_search", f.query_embedding)
    /\ UNCHANGED <<locals, graph, graph0, p_in, p_out, r_in, r_out, o_in, o_out,
                   t_input, t_driver>>

\* app.py:198, 143-171
GetOntology(i) ==
    /\ t_pc[i] = "Introspecting"
    /\ LET f == Frame(i)
       IN \/ \E nrows \in ServeNodeRows, rrows \in ServeRelRows :
                \E out \in get_ontology_from_neo4j(nrows, rrows) :
                   /\ Logged(i, "get_ontology_from_neo4j", <<>>, TRUE, out.text)
                   /\ SetFrame(i, [f EXCEPT !.ontology = out.text])
                   /\ Goto(i, "GeneratingQuery")
                   /\ UNCHANGED t_answer
          \/ Caught(i, "get_ontology_from_neo4j", <<>>)
    /\ UNCHANGED <<locals, graph, graph0, p_in, p_out, r_in, r_out, o_in, o_out,
                   t_input, t_driver>>

\* app.py:199-209
Generate(i) ==
    /\ t_pc[i] = "GeneratingQuery"
    /\ LET f == Frame(i)
           prompt == cypher_generation_prompt(f.user_input, f.context, f.ontology)
       IN \/ \E text \in ServeTexts :
                /\ Logged(i, "generate_query", prompt, TRUE, text)
                /\ SetFrame(i, [f EXCEPT !.generated_query = Sanitize(Strip(text))])
                /\ Goto(i, "Executing")
                /\ UNCHANGED t_answer
          \/ Caught(i, "generate_query", prompt)
    /\ UNCHANGED <<locals, graph, graph0, p_in, p_out, r_in, r_out, o_in, o_out,
                   t_input, t_driver>>

\* app.py:212-214
Run(i) ==
    /\ t_pc[i] = "Executing"
    /\ LET f == Frame(i)
       IN \/ /\ Executable(f.generated_query)
             /\ \E rs \in ServeResultSets :
                   /\ Logged(i, "run_query", f.generated_query, TRUE, rs)
                   /\ SetFrame(i, [f EXCEPT !.records = rs])
             /\ graph' = GraphAfter(graph, f.generated_query)
             /\ Goto(i, "Summarizing")
             /\ UNCHANGED t_answer
          \/ /\ Caught(i, "run_query", f.generated_query)
             /\ UNCHANGED graph
    /\ UNCHANGED <<locals, graph0, p_in, p_out, r_in, r_out, o_in, o_out,
                   t_input, t_driver>>

\* app.py:217-220
Summary(i) ==
    /\ t_pc[i] = "Summarizing"
    /\ LET f == Frame(i)
           prompt == summarize_results_prompt(f.user_input,
                        [query |-> f.generated_query, results |-> f.records],
                        Len(f.records), ListStr(f.records))
       IN \/ \E text \in SummaryTexts :
                /\ Logged(i, "summarize", prompt, TRUE, text)
                /\ t_answer' = [t_answer EXCEPT ![i] = text]
                /\ Goto(i, "Closing")
                /\ UNCHANGED t_frame
          \/ Caught(i, "summarize", prompt)
    /\ UNCHANGED <<locals, graph, graph0, p_in, p_out, r_in, r_out, o_in, o_out,
                   t_input, t_driver>>

\* app.py:242-243, 225-227, 32-34: the finally clause closes the driver and
\* handle_user_input returns the response
Close(i) ==
    /\ t_pc[i] = "Closing"
    /\ t_driver' = [t_driver EXCEPT ![i] = "closed"]
    /\ Goto(i, "Returned")
    /\ UNCHANGED <<locals, graph, graph0, p_in, p_out, r_in, r_out, o_in, o_out,
                   t_input, t_frame, t_log, t_answer>>

\* the next step of request i
Serve(i) ==
    \/ Submit(i)
    \/ OpenDriver(i)
    \/ InitGemini(i)
    \/ InitVectorService(i)
    \/ Embed(i)
    \/ Search(i)
    \/ GetOntology(i)
    \/ Generate(i)
    \/ Run(i)
    \/ Summary(i)
    \/ Close(i)

NextServe ==
    \/ \E i \in Requests : Submit(i)
    \/ \E i \in Requests : OpenDriver(i)
    \/ \E i \in Requests : InitGemini(i)
    \/ \E i \in Requests : InitVectorService(i)
    \/ \E i \in Requests : Embed(i)
    \/ \E i \in Requests : Search(i)
    \/ \E i \in Requests : GetOntology(i)
    \/ \E i \in Requests : Generate(i)
    \/ \E i \in Requests : Run(i)
    \/ \E i \in Requests : Summary(i)
    \/ \E i \in Requests : Close(i)

SpecServe == InitServe /\ [][NextServe]_vars

\* the collaborator calls of one request, in program order
ServeOrder ==
    <<"generate_embedding", "vector_search", "get_ontology_from_neo4j", "generate_query",
      "run_query", "summarize">>

\* the argument of the k-th call of a request, computed from the request's
\* input u and from the responses to its earlier calls in its log L
OwnArgument(u, L, k) ==
    CASE k = 1 -> u
      [] k = 2 -> L[1].out
      [] k = 3 -> <<>>
      [] k = 4 -> cypher_generation_prompt(u, FormatContext(L[2].out), L[3].out)
      [] k = 5 -> Sanitize(Strip(L[4].out))
      [] k = 6 -> summarize_results_prompt(u,
                     [query |-> Sanitize(Strip(L[4].out)), results |-> L[5].out],
                     Len(L[5].out), ListStr(L[5].out))

\* the request whose log is L has made its last call
LogComplete(L) ==
    /\ L # <<>>
    /\ \/ ~L[Len(L)].ok
       \/ Len(L) = 2 /\ L[2].out = <<>>
       \/ Len(L) = 6

\* the Answer that follows from the responses in the log L alone
OwnAnswer(L) ==
    IF ~L[Len(L)].ok THEN ErrPrefix \o L[Len(L)].out
    ELSE IF Len(L) = 2 THEN NoResultsMsg
    ELSE L[6].out

\* C12: requests are independent under every interleaving: every call of a
\* request is made with the argument that follows from the request's own input
\* and the responses to its own earlier calls, its Answer follows from its own
\* responses alone, and a request that has not ended can always take its next
\* step, whatever the other request did.
C12_RequestsIndependent ==
    \A i \in Requests :
        /\ Len(t_log[i]) <= Len(ServeOrder)
        /\ \A k \in 1..Len(t_log[i]) :
              /\ t_log[i][k].op = ServeOrder[k]
              /\ t_log[i][k].arg = OwnArgument(t_input[i], t_log[i], k)
              /\ k < Len(t_log[i]) => t_log[i][k].ok
        /\ t_pc[i] \in {"Closing", "Returned"} =>
              /\ LogComplete(t_log[i])
              /\ t_answer[i] = OwnAnswer(t_log[i])
        /\ t_pc[i] \notin Ended => ENABLED Serve(i)

C12_Witness ==
    /\ t_input[1] # t_input[2]
    /\ t_pc[1] = "Returned"
    /\ t_pc[2] = "Returned"
    /\ ~t_log[1][Len(t_log[1])].ok
    /\ StartsWith(t_answer[1], ErrPrefix)
    /\ Len(t_log[2]) = 6
    /\ t_log[2][6].ok
    /\ t_answer[2] = t_log[2][6].out
    /\ graph # graph0

\* C19: every driver handle_user_input opened is closed when the call has
\* ended, whether it returned or raised.
C19_DriverClosedAtEnd ==
    \A i \in Requests : t_pc[i] \in Ended => t_driver[i] # "open"


====
